---- MODULE Spec2Model ----
(***************************************************************************)
(* A model of three command-line utilities of the repository:              *)
(*   ebs_iops_adjust.py   - the EBS IOPS/throughput reconciler             *)
(*   aws_billing.py       - the billing pipeline                           *)
(*   ec2_cost_estimate.py - the EC2/EBS/RDS cost estimator                 *)
(* Each script is a sequential program; an action is one loop iteration or *)
(* one function call of the script, and the cloud provider's answers are   *)
(* the nondeterministic inputs.                                            *)
(***************************************************************************)
EXTENDS Integers, Sequences, FiniteSets, TLC

VARIABLES
    \* ---- ebs_iops_adjust.py
    args,            \* parsed command line (lines 12-19)
    ec2_instances,   \* every instance of the region, with tags and attachments
    cloud_volumes,   \* the provider's volumes: VolumeId -> attributes
    visit,           \* index of the next (instance, device) pair of the loop
    run,             \* which invocation of the script this is (1 or 2)
    api_log,         \* the modify_volume requests sent, with the provider's answer
    stdout,          \* what the script printed
    epc,             \* "idle", "loop", "done" or "raised"
    \* ---- aws_billing.py
    bargs,           \* parsed command line (lines 127-174)
    response,        \* what get_billing_data returned: <<>> is None
    aggregated_data, \* what aggregate_billing_data returned
    bout,            \* what the script printed
    files,           \* the output files written
    exception,       \* <<>>, or the exception that ended the script
    bpc,             \* "idle", "start", "fetched", "aggregated", "done", "raised"
    \* ---- ec2_cost_estimate.py
    cargs,                       \* parsed command line: tag is <<>> for None
    instance_prices,             \* the table load_instance_prices returned
    ec2_running_instances,       \* what get_running_instances returned
    db_instances,                \* the DBInstances of describe_db_instances
    catalog,                     \* the pricing catalog: class -> PriceList
    rds_running_instances,       \* what get_running_rds_instances returned
    rds_prices,                  \* the memo of line 177: class -> price
    price_queries,               \* the classes load_rds_prices was called with
    ec2_total_monthly_cost,
    ec2_costs_by_instance_type,
    rds_total_monthly_cost,
    rds_costs_by_instance_type,
    next_instance,               \* index of the next instance of the running loop
    cout,                        \* what the script printed
    stderr,                      \* the diagnostic lines (file=sys.stderr)
    cexception,                  \* <<>>, or the exception that ended the script
    cpc                          \* "idle", "start", "ec2", "rds", "done", "raised"

ebs_vars == <<args, ec2_instances, cloud_volumes, visit, run, api_log, stdout, epc>>

billing_vars == <<bargs, response, aggregated_data, bout, files, exception, bpc>>

cost_inputs == <<cargs, instance_prices, ec2_running_instances, db_instances, catalog>>

cost_vars ==
    <<cost_inputs, rds_running_instances, rds_prices, price_queries,
      ec2_total_monthly_cost, ec2_costs_by_instance_type, rds_total_monthly_cost,
      rds_costs_by_instance_type, next_instance, cout, stderr, cexception, cpc>>

vars == <<ebs_vars, billing_vars, cost_vars>>

\* A script that is not the one being run.
EbsIdle ==
    /\ args = <<>> /\ ec2_instances = <<>> /\ cloud_volumes = <<>> /\ visit = 0
    /\ run = 0 /\ api_log = <<>> /\ stdout = <<>> /\ epc = "idle"

BillingIdle ==
    /\ bargs = <<>> /\ response = <<>> /\ aggregated_data = <<>> /\ bout = <<>>
    /\ files = <<>> /\ exception = <<>> /\ bpc = "idle"

CostIdle ==
    /\ cargs = <<>> /\ instance_prices = <<>> /\ ec2_running_instances = <<>>
    /\ db_instances = <<>> /\ catalog = <<>> /\ rds_running_instances = <<>>
    /\ rds_prices = <<>> /\ price_queries = <<>> /\ ec2_total_monthly_cost = 0
    /\ ec2_costs_by_instance_type = <<>> /\ rds_total_monthly_cost = 0
    /\ rds_costs_by_instance_type = <<>> /\ next_instance = 0 /\ cout = <<>>
    /\ stderr = <<>> /\ cexception = <<>> /\ cpc = "idle"

not_ebs_vars == <<billing_vars, cost_vars>>
not_billing_vars == <<ebs_vars, cost_vars>>
not_cost_vars == <<ebs_vars, billing_vars>>

-----------------------------------------------------------------------------
(* Bounds and value sets                                                   *)

\* The largest --iops value. The requested values are the three up to it and
\* -1 (type=int accepts negative numbers).
MaxIops == 4
RequestedIops == {-1} \cup (MaxIops - 2)..MaxIops

\* The number of invocations of the reconciler that are followed.
MaxRuns == 2

VolumeIds == {"vol-a", "vol-b", "vol-c"}

\* The --volume-type choices, line 18.
TargetTypes == {"io1", "io2", "gp3"}

\* Types a volume of the account may have; gp2 stands for the types the
\* reconciler never targets.
OtherTypes == {"gp2"}
VolumeTypes == TargetTypes \cup OtherTypes

CurrentIopsChoices == {MaxIops - 1, MaxIops}
CurrentThroughputChoices == {0, 1}

\* Attributes of one volume as ec2.Volume reports them; throughput is only
\* read for gp3 (line 49) and only kept for gp3 here.
VolumeStates ==
    {[volume_type |-> t, iops |-> i] :
        t \in {"io1", "io2"}, i \in CurrentIopsChoices}
    \cup
    {[volume_type |-> t, iops |-> MaxIops] : t \in OtherTypes}
    \cup
    {[volume_type |-> "gp3", iops |-> i, throughput |-> th] :
        i \in CurrentIopsChoices, th \in CurrentThroughputChoices}

Tag(k, v) == [Key |-> k, Value |-> v]

\* Two fleets. The first has an instance without a Name tag; the second has
\* an instance with no attachment, an instance the tag filter rejects, and a
\* volume attached to two instances (io1/io2 multi-attach).
Fleets ==
    { << [id |-> "i-1", tags |-> <<Tag("Name", "web"), Tag("env", "prod")>>,
          block_device_mappings |-> <<"vol-a", "vol-b">>],
         [id |-> "i-2", tags |-> <<Tag("env", "prod")>>,
          block_device_mappings |-> <<"vol-c">>] >>,
      << [id |-> "i-1", tags |-> <<Tag("env", "prod")>>,
          block_device_mappings |-> <<>>],
         [id |-> "i-2", tags |-> <<Tag("env", "dev"), Tag("Name", "db")>>,
          block_device_mappings |-> <<"vol-a">>],
         [id |-> "i-3", tags |-> <<Tag("env", "prod"), Tag("Name", "web")>>,
          block_device_mappings |-> <<"vol-b", "vol-c">>],
         [id |-> "i-4", tags |-> <<Tag("env", "prod")>>,
          block_device_mappings |-> <<"vol-b">>] >> }

\* What the provider may do with a modify_volume request: apply it, accept it
\* without the new attributes being visible yet, or reject it (the SDK raises).
ModifyOutcomes == {"applied", "accepted", "raises"}

-----------------------------------------------------------------------------
(* ebs_iops_adjust.py                                                      *)

\* get_instance_name, lines 4-9: the value of the first tag named Name.
RECURSIVE get_instance_name_from(_, _)
get_instance_name_from(instance_tags, i) ==
    IF i > Len(instance_tags) THEN "N/A"
    ELSE IF instance_tags[i].Key = "Name" THEN instance_tags[i].Value
    ELSE get_instance_name_from(instance_tags, i + 1)

get_instance_name(instance_tags) == get_instance_name_from(instance_tags, 1)

\* ec2.instances.filter with the tag:<key> filter, lines 26-33.
InstancesFilter(all, key, value) ==
    SelectSeq(all, LAMBDA inst :
        \E t \in 1..Len(inst.tags) :
            inst.tags[t].Key = key /\ inst.tags[t].Value = value)

instances == InstancesFilter(ec2_instances, args.tag_key, args.tag_value)

\* The nested loops of lines 40-43 as the sequence of their iterations.
RECURSIVE VolumeVisitsFrom(_, _)
VolumeVisitsFrom(insts, i) ==
    IF i > Len(insts) THEN <<>>
    ELSE [j \in 1..Len(insts[i].block_device_mappings) |->
            [instance |-> insts[i],
             volume_id |-> insts[i].block_device_mappings[j]]]
         \o VolumeVisitsFrom(insts, i + 1)

VolumeVisits == VolumeVisitsFrom(instances, 1)

\* A variant that rounds toward minus infinity, as n // 4 would.
FloorQuarter(n) == n \div 4

\* int(x * 0.25): Python's int() truncates toward zero.
TruncQuarter(n) == IF n >= 0 THEN n \div 4 ELSE -((-n) \div 4)

\* Lines 36-37. new_throughput is None unless the target type is gp3; None is
\* the empty sequence here and a value v is <<v>>.
new_iops == args.iops
new_throughput ==
    IF args.volume_type = "gp3" THEN <<TruncQuarter(args.iops)>> ELSE <<>>

\* Line 49.
current_throughput(volume) ==
    IF volume.volume_type = "gp3" THEN <<volume.throughput>> ELSE <<>>

\* A variant with the throughput test joined by "and" where the code has "or".
AlreadySet_AndForOr(volume) ==
    /\ volume.iops = new_iops
    /\ (volume.volume_type # "gp3" /\ current_throughput(volume) = new_throughput)

\* Line 51.
AlreadySet(volume) ==
    /\ volume.iops = new_iops
    /\ (volume.volume_type # "gp3" \/ current_throughput(volume) = new_throughput)

\* A variant that never adds the Throughput parameter.
modify_params_IopsOnly(volume_id, volume_type) ==
    [VolumeId |-> volume_id, Iops |-> args.iops]

\* Lines 60-65.
modify_params(volume_id, volume_type) ==
    IF volume_type = "gp3"
    THEN [VolumeId |-> volume_id, Iops |-> new_iops, Throughput |-> new_throughput[1]]
    ELSE [VolumeId |-> volume_id, Iops |-> new_iops]

\* The provider applying a request to a volume.
ApplyModification(volume, params) ==
    IF "Throughput" \in DOMAIN params
    THEN [volume EXCEPT !.iops = params.Iops, !.throughput = params.Throughput]
    ELSE [volume EXCEPT !.iops = params.Iops]

Current == VolumeVisits[visit]
CurrentName == get_instance_name(Current.instance.tags)
CurrentVolume == cloud_volumes[Current.volume_id]

InLoop == epc = "loop" /\ visit <= Len(VolumeVisits)

Say(lines) == stdout' = stdout \o [i \in 1..Len(lines) |-> [run |-> run] @@ lines[i]]

\* Reading volume.volume_type (line 45) loads the volume from the provider and
\* may raise; nothing catches it, the script ends.
VolumeLookupRaises ==
    /\ InLoop
    /\ epc' = "raised"
    /\ UNCHANGED <<args, ec2_instances, cloud_volumes, visit, run, api_log, stdout, not_ebs_vars>>

\* Lines 71-72.
SkipOtherType ==
    /\ InLoop
    /\ CurrentVolume.volume_type # args.volume_type
    /\ Say(<<[msg |-> "skip_type", volume |-> Current.volume_id,
              instance |-> Current.instance.id, name |-> CurrentName]>>)
    /\ visit' = visit + 1
    /\ UNCHANGED <<args, ec2_instances, cloud_volumes, run, api_log, epc, not_ebs_vars>>

\* Lines 51-52.
SkipAlreadySet ==
    /\ InLoop
    /\ CurrentVolume.volume_type = args.volume_type
    /\ AlreadySet(CurrentVolume)
    /\ Say(<<[msg |-> "skip_already_set", volume |-> Current.volume_id,
              instance |-> Current.instance.id, name |-> CurrentName]>>)
    /\ visit' = visit + 1
    /\ UNCHANGED <<args, ec2_instances, cloud_volumes, run, api_log, epc, not_ebs_vars>>

\* Lines 54-56: the report of the current values.
CurrentReport ==
    <<[msg |-> "current_iops", volume |-> Current.volume_id,
       instance |-> Current.instance.id, name |-> CurrentName,
       iops |-> CurrentVolume.iops]>>
    \o (IF CurrentVolume.volume_type = "gp3"
        THEN <<[msg |-> "current_throughput", volume |-> Current.volume_id,
                name |-> CurrentName,
                throughput |-> current_throughput(CurrentVolume)]>>
        ELSE <<>>)

\* Lines 67-70.
DryRun ==
    /\ InLoop
    /\ CurrentVolume.volume_type = args.volume_type
    /\ ~AlreadySet(CurrentVolume)
    /\ ~args.apply
    /\ Say(CurrentReport
           \o <<[msg |-> "dry_run_iops", volume |-> Current.volume_id,
                 instance |-> Current.instance.id, name |-> CurrentName,
                 from |-> CurrentVolume.iops, to |-> new_iops]>>
           \o (IF CurrentVolume.volume_type = "gp3"
               THEN <<[msg |-> "dry_run_throughput", volume |-> Current.volume_id,
                       name |-> CurrentName,
                       from |-> current_throughput(CurrentVolume),
                       to |-> new_throughput]>>
               ELSE <<>>))
    /\ visit' = visit + 1
    /\ UNCHANGED <<args, ec2_instances, cloud_volumes, run, api_log, epc, not_ebs_vars>>

\* A variant that swallows the SDK's exception and goes on with the loop.
AfterModify_SwallowsError(outcome) ==
    epc' = epc /\ visit' = visit + 1

\* Line 66: an exception of client.modify_volume is not caught and ends the
\* script; otherwise the loop goes on with the next device.
AfterModify(outcome) ==
    IF outcome = "raises"
    THEN epc' = "raised" /\ visit' = visit
    ELSE epc' = epc /\ visit' = visit + 1

\* Lines 58-66: the request is built and sent; the provider answers.
ModifyVolume ==
    /\ InLoop
    /\ CurrentVolume.volume_type = args.volume_type
    /\ ~AlreadySet(CurrentVolume)
    /\ args.apply
    /\ Say(CurrentReport
           \o <<[msg |-> "modifying", volume |-> Current.volume_id,
                 instance |-> Current.instance.id, name |-> CurrentName]>>)
    /\ \E outcome \in ModifyOutcomes :
         LET params == modify_params(Current.volume_id, CurrentVolume.volume_type)
         IN  /\ api_log' = Append(api_log,
                    [run |-> run, visit |-> visit, params |-> params,
                     outcome |-> outcome])
             /\ cloud_volumes' =
                    IF outcome = "applied"
                    THEN [cloud_volumes EXCEPT ![Current.volume_id] =
                              ApplyModification(@, params)]
                    ELSE cloud_volumes
             /\ AfterModify(outcome)
    /\ UNCHANGED <<args, ec2_instances, run, not_ebs_vars>>

\* Lines 74-77.
Complete ==
    /\ epc = "loop"
    /\ visit > Len(VolumeVisits)
    /\ Say(<<[msg |-> IF args.apply THEN "modification_complete"
                      ELSE "dry_run_complete"]>>)
    /\ epc' = "done"
    /\ UNCHANGED <<args, ec2_instances, cloud_volumes, visit, run, api_log, not_ebs_vars>>

\* The operator starts the script again, with the same command line, after a
\* run that completed.
Rerun ==
    /\ epc = "done"
    /\ run < MaxRuns
    /\ run' = run + 1
    /\ visit' = 1
    /\ epc' = "loop"
    /\ UNCHANGED <<args, ec2_instances, cloud_volumes, api_log, stdout, not_ebs_vars>>

EbsInit ==
    /\ args \in [iops : RequestedIops, apply : BOOLEAN,
                 volume_type : TargetTypes, tag_key : {"env"}, tag_value : {"prod"}]
    /\ ec2_instances \in Fleets
    /\ cloud_volumes \in [VolumeIds -> VolumeStates]
    /\ visit = 1
    /\ run = 1
    /\ api_log = <<>>
    /\ stdout = <<>>
    /\ epc = "loop"
    /\ BillingIdle
    /\ CostIdle

EbsNext ==
    \/ VolumeLookupRaises
    \/ SkipOtherType
    \/ SkipAlreadySet
    \/ DryRun
    \/ ModifyVolume
    \/ Complete
    \/ Rerun

SpecEbs == EbsInit /\ [][EbsNext]_vars

-----------------------------------------------------------------------------
(* Properties of the reconciler                                            *)

Printed(r, m) == \E i \in 1..Len(stdout) : stdout[i].run = r /\ stdout[i].msg = m

CallsOfRun(r) == {i \in 1..Len(api_log) : api_log[i].run = r}

\* The volume differs from the desired values: its IOPS, or for gp3 its IOPS
\* or its throughput.
DiffersFromDesired(volume) ==
    \/ volume.iops # args.iops
    \/ /\ volume.volume_type = "gp3"
       /\ volume.throughput # TruncQuarter(args.iops)

\* C1: a modify_volume request is sent for a volume only if --apply is set,
\* the volume's type is the --volume-type and the volume's IOPS (for gp3: its
\* IOPS or its throughput) differs from the desired value; a run without
\* --apply sends no request at all.
C1_ModifyOnlyWhenNeeded ==
    /\ [][api_log' # api_log =>
            /\ args.apply
            /\ \E v \in VolumeIds :
                 /\ api_log' = Append(api_log, api_log'[Len(api_log')])
                 /\ api_log'[Len(api_log')].params.VolumeId = v
                 /\ cloud_volumes[v].volume_type = args.volume_type
                 /\ DiffersFromDesired(cloud_volumes[v])]_vars
    /\ [](~args.apply => api_log = <<>>)

\* A request was sent for a gp3 volume whose IOPS already had the desired
\* value (its throughput differed).
C1_Witness ==
    /\ args.apply
    /\ \E i \in 1..Len(api_log), j \in 1..Len(stdout) :
         /\ "Throughput" \in DOMAIN api_log[i].params
         /\ stdout[j].msg = "current_iops"
         /\ stdout[j].run = api_log[i].run
         /\ stdout[j].volume = api_log[i].params.VolumeId
         /\ stdout[j].iops = args.iops

\* The first run was an apply-mode run that completed and every request it
\* sent took effect.
FirstRunReconciled ==
    /\ args.apply
    /\ Printed(1, "modification_complete")
    /\ \A i \in CallsOfRun(1) : api_log[i].outcome = "applied"

\* C2: after a complete apply-mode run whose requests all took effect, a
\* second run with the same command line sends no request: every volume of
\* the target type takes the "already set, skipping" branch.
C2_SecondRunIdle ==
    FirstRunReconciled =>
        /\ CallsOfRun(2) = {}
        /\ \A j \in 1..Len(stdout) :
             stdout[j].run = 2 =>
                stdout[j].msg \in {"skip_type", "skip_already_set",
                                   "modification_complete"}

\* The second run completed after a first run that modified a gp3 volume and
\* an io volume's worth of requests, and it skipped a volume as already set.
C2_Witness ==
    /\ FirstRunReconciled
    /\ run = 2
    /\ epc = "done"
    /\ \E i \in CallsOfRun(1) : "Throughput" \in DOMAIN api_log[i].params
    /\ Cardinality(CallsOfRun(1)) >= 2
    /\ Printed(2, "skip_already_set")

\* th is x * 0.25 truncated toward zero.
IsQuarterTruncated(th, x) ==
    IF x >= 0 THEN 4 * th <= x /\ x < 4 * th + 4
    ELSE 4 * th >= x /\ x > 4 * th - 4

\* C3: every request carries Iops equal to --iops; for gp3 it carries
\* Throughput equal to --iops * 0.25 truncated to an integer, for io1 and io2
\* it carries no Throughput parameter.
C3_RequestParameters ==
    \A i \in 1..Len(api_log) :
        LET p == api_log[i].params
            t == cloud_volumes[p.VolumeId].volume_type
        IN  /\ p.Iops = args.iops
            /\ t = "gp3" =>
                 /\ "Throughput" \in DOMAIN p
                 /\ IsQuarterTruncated(p.Throughput, args.iops)
            /\ t \in {"io1", "io2"} => DOMAIN p = {"VolumeId", "Iops"}

\* Requests were sent for a gp3 volume with an --iops that is not a multiple
\* of four.
C3_Witness ==
    \E i \in 1..Len(api_log) :
        /\ "Throughput" \in DOMAIN api_log[i].params
        /\ api_log[i].params.Iops % 4 # 0

\* The volume shows what the request asked for.
Reflects(volume, params) ==
    /\ volume.iops = params.Iops
    /\ "Throughput" \in DOMAIN params => volume.throughput = params.Throughput

\* C8: when a request or a volume lookup fails at the k-th volume, the run
\* stops there: the failed request is the last one sent, no request is sent
\* for a later volume, the run prints no completion message, and the requests
\* applied before it stay applied.
C8_FailureStopsRun ==
    /\ \A i \in 1..Len(api_log) :
         /\ api_log[i].outcome = "raises" =>
              /\ i = Len(api_log)
              /\ epc = "raised"
              /\ api_log[i].run = run
         /\ api_log[i].outcome = "applied" =>
              Reflects(cloud_volumes[api_log[i].params.VolumeId], api_log[i].params)
    /\ epc = "raised" =>
         /\ ~Printed(run, "modification_complete")
         /\ ~Printed(run, "dry_run_complete")
         /\ \A i \in CallsOfRun(run) : api_log[i].visit <= visit
         /\ ~ENABLED EbsNext

\* The second of three requests failed after the first was applied, and a
\* later volume that needed the change was never attempted.
C8_Witness ==
    /\ epc = "raised"
    /\ Len(api_log) = 2
    /\ api_log[1].outcome = "applied"
    /\ api_log[2].outcome = "raises"
    /\ \E k \in (visit + 1)..Len(VolumeVisits) :
         LET v == cloud_volumes[VolumeVisits[k].volume_id]
         IN  v.volume_type = args.volume_type /\ ~AlreadySet(v)

-----------------------------------------------------------------------------
(* aws_billing.py                                                          *)

\* The number of time buckets (ResultsByTime entries) of a response.
MaxBuckets == 2

Services == {"EC2", "S3"}

\* --metrics: one or two metric names, each named once.
MetricLists ==
    { <<"UnblendedCost">>,
      <<"UnblendedCost", "UsageQuantity">>,
      <<"UsageQuantity", "UnblendedCost">> }

\* An Amount is the decimal string of the API, e.g. "5.50", kept as its two
\* parts.
Amt(u, h) == [units |-> u, hundredths |-> h]

\* The metric values one group of a response may carry.
MetricRows ==
    { [UnblendedCost |-> [Amount |-> Amt(10, 0), Unit |-> "USD"],
       UsageQuantity |-> [Amount |-> Amt(2, 0), Unit |-> "Hrs"]],
      [UnblendedCost |-> [Amount |-> Amt(5, 50), Unit |-> "USD"],
       UsageQuantity |-> [Amount |-> Amt(1, 25), Unit |-> "Hrs"]],
      [UnblendedCost |-> [Amount |-> Amt(5, 50), Unit |-> "EUR"],
       UsageQuantity |-> [Amount |-> Amt(1, 25), Unit |-> "GB"]] }

Range(f) == {f[i] : i \in DOMAIN f}

SeqsUpTo(S, n) == UNION {[1..k -> S] : k \in 0..n}

\* The groups of a response to a request for `metrics`, grouped by SERVICE
\* (lines 23-28): one key, and the requested metrics.
GroupsFor(metrics) ==
    {[Keys |-> <<svc>>, Metrics |-> [m \in Range(metrics) |-> row[m]]] :
        svc \in Services, row \in MetricRows}

\* A time bucket holds at most one group per service, or has no Groups key.
BucketsFor(metrics) ==
    {[Groups |-> gs] :
        gs \in {b \in SeqsUpTo(GroupsFor(metrics), Cardinality(Services)) :
                   \A i, j \in 1..Len(b) : i < j => b[i].Keys[1] # b[j].Keys[1]}}
    \cup {[Estimated |-> TRUE]}

\* The responses: up to MaxBuckets buckets, or no ResultsByTime key.
ResponsesFor(metrics) ==
    {[ResultsByTime |-> r] : r \in SeqsUpTo(BucketsFor(metrics), MaxBuckets)}
    \cup {[ResponseMetadata |-> "200"]}

\* --output-file and --output-format as main accepts them (lines 152-158,
\* 173-174): no file, or a file with one of the two formats.
OutputChoices ==
    { [output_file |-> <<>>, output_format |-> <<>>],
      [output_file |-> <<"out.csv">>, output_format |-> <<"csv">>],
      [output_file |-> <<"out.json">>, output_format |-> <<"json">>] }

\* The exceptions get_billing_data catches, and the message it prints for each
\* (lines 11-13, 30-35).
CaughtFailures ==
    { [raised |-> "NoCredentialsError", said |-> "credentials_not_found"],
      [raised |-> "PartialCredentialsError", said |-> "credentials_not_found"],
      [raised |-> "DataUnavailableException", said |-> "data_not_available"],
      [raised |-> "Exception", said |-> "error_occurred"] }

\* dict.get(key, default), lines 44 and 47.
Get(dict, key, default) == IF key \in DOMAIN dict THEN dict[key] ELSE default

\* float(amount), in hundredths; binary rounding is not modelled.
Float(amount) == amount.units * 100 + amount.hundredths

\* A variant that keeps the last amount instead of adding it.
AddAmount_Overwrite(sum, amount) == amount

\* Line 59: aggregated_data[service][metric] += amount.
AddAmount(sum, amount) == sum + amount

\* A variant that keeps the last amount instead of adding it.
AddToTotal_Overwrite(total, amount) == amount

\* Line 75: total_costs[metric] += amount.
AddToTotal(total, amount) == total + amount

\* The groups of all buckets in the order lines 46-51 meet them; a bucket
\* without groups is skipped (lines 48-49).
RECURSIVE AllGroups(_)
AllGroups(results) ==
    IF results = <<>> THEN <<>>
    ELSE Get(Head(results), "Groups", <<>>) \o AllGroups(Tail(results))

\* Lines 57-59 for one group: each requested metric is added in turn.
RECURSIVE AddMetrics(_, _, _, _)
AddMetrics(amounts, group, metrics, k) ==
    IF k > Len(metrics) THEN amounts
    ELSE AddMetrics(
             [amounts EXCEPT ![metrics[k]] =
                 AddAmount(@, Float(group.Metrics[metrics[k]].Amount))],
             group, metrics, k + 1)

IndexOfService(items, service) ==
    IF \E i \in 1..Len(items) : items[i].Service = service
    THEN CHOOSE i \in 1..Len(items) : items[i].Service = service
    ELSE 0

\* Lines 51-59. A dict keeps insertion order: it is the sequence of its
\* entries, each with its key (Service).
RECURSIVE AggregateFrom(_, _, _)
AggregateFrom(groups, metrics, items) ==
    IF groups = <<>> THEN items
    ELSE LET group == Head(groups)
             service == group.Keys[1]
             known == IndexOfService(items, service)
             started ==
                 IF known = 0
                 THEN Append(items,
                          [Service |-> service,
                           Unit |-> group.Metrics[metrics[1]].Unit,
                           amounts |-> [m \in Range(metrics) |-> 0]])
                 ELSE items
             at == IF known = 0 THEN Len(started) ELSE known
         IN  AggregateFrom(Tail(groups), metrics,
                 [started EXCEPT ![at].amounts = AddMetrics(@, group, metrics, 1)])

\* The empty list of line 41, and a dict.
EmptyList == [type |-> "list", items |-> <<>>]
Dict(items) == [type |-> "dict", items |-> items]

\* aggregate_billing_data, lines 39-61.
aggregate_billing_data(resp, metrics) ==
    IF resp = <<>> THEN EmptyList
    ELSE Dict(AggregateFrom(AllGroups(Get(resp[1], "ResultsByTime", <<>>)),
                            metrics, <<>>))

\* Lines 65-76: total_costs after the loop over the services.
RECURSIVE TotalMetrics(_, _, _, _)
TotalMetrics(totals, item, metrics, k) ==
    IF k > Len(metrics) THEN totals
    ELSE TotalMetrics(
             [totals EXCEPT ![metrics[k]] = AddToTotal(@, item.amounts[metrics[k]])],
             item, metrics, k + 1)

RECURSIVE TotalCostsFrom(_, _, _)
TotalCostsFrom(items, metrics, totals) ==
    IF items = <<>> THEN totals
    ELSE TotalCostsFrom(Tail(items), metrics,
             TotalMetrics(totals, Head(items), metrics, 1))

total_costs(items, metrics) ==
    TotalCostsFrom(items, metrics, [m \in Range(metrics) |-> 0])

\* Lines 68-76: the records of `data`.
DataRecords(items) ==
    [i \in 1..Len(items) |->
        [Service |-> items[i].Service, Unit |-> items[i].Unit]
        @@ items[i].amounts]

\* Lines 89-94.
RECURSIVE ServiceLines(_, _)
ServiceLines(data, metrics) ==
    IF data = <<>> THEN <<>>
    ELSE <<[line |-> "service", Service |-> Head(data).Service]>>
         \o [k \in 1..Len(metrics) |->
               [line |-> "amount", Service |-> Head(data).Service,
                metric |-> metrics[k], amount |-> Head(data)[metrics[k]],
                unit |-> Head(data).Unit]]
         \o ServiceLines(Tail(data), metrics)

\* Lines 95-98.
TotalLines(data, metrics, totals) ==
    <<[line |-> "total_costs"]>>
    \o [k \in 1..Len(metrics) |->
          [line |-> "total", metric |-> metrics[k], amount |-> totals[metrics[k]],
           unit |-> IF data # <<>> THEN data[1].Unit ELSE "USD"]]

\* get_billing_data returns the response, lines 15-29 and 37.
GetBillingDataReturns ==
    /\ bpc = "start"
    /\ \E resp \in ResponsesFor(bargs.metrics) : response' = <<resp>>
    /\ bpc' = "fetched"
    /\ UNCHANGED <<bargs, aggregated_data, bout, files, exception, not_billing_vars>>

\* boto3.client or get_cost_and_usage raises an exception that
\* get_billing_data catches: a message is printed and None returned.
GetBillingDataFails ==
    /\ bpc = "start"
    /\ \E f \in CaughtFailures :
         bout' = Append(bout, [line |-> f.said, raised |-> f.raised])
    /\ response' = <<>>
    /\ bpc' = "fetched"
    /\ UNCHANGED <<bargs, aggregated_data, files, exception, not_billing_vars>>

\* boto3.client raises something other than the two exceptions of line 11
\* (NoRegionError, say): nothing catches it.
ClientConstructionRaises ==
    /\ bpc = "start"
    /\ exception' = <<"NoRegionError">>
    /\ bpc' = "raised"
    /\ UNCHANGED <<bargs, response, aggregated_data, bout, files, not_billing_vars>>

\* Line 177.
AggregateBillingData ==
    /\ bpc = "fetched"
    /\ aggregated_data' = aggregate_billing_data(response, bargs.metrics)
    /\ bpc' = "aggregated"
    /\ UNCHANGED <<bargs, response, bout, files, exception, not_billing_vars>>

\* Line 178: print_billing_data, lines 63-98. Line 67 calls .items() on
\* aggregated_data, which a list does not have.
PrintBillingData ==
    /\ bpc = "aggregated"
    /\ IF aggregated_data.type # "dict"
       THEN /\ exception' = <<"AttributeError">>
            /\ bpc' = "raised"
            /\ UNCHANGED <<bout, files>>
       ELSE LET metrics == bargs.metrics
                data == DataRecords(aggregated_data.items)
                totals == total_costs(aggregated_data.items, metrics)
            IN  /\ IF bargs.output_file # <<>>
                   THEN CASE bargs.output_format = <<"csv">> ->
                               /\ files' = Append(files,
                                    [path |-> bargs.output_file[1], format |-> "csv",
                                     fieldnames |-> <<"Service">> \o metrics \o <<"Unit">>,
                                     rows |-> data])
                               /\ bout' = Append(bout, [line |-> "written"])
                          [] bargs.output_format = <<"json">> ->
                               /\ files' = Append(files,
                                    [path |-> bargs.output_file[1], format |-> "json",
                                     BillingPeriod |-> [Start |-> bargs.start_date,
                                                        End |-> bargs.end_date],
                                     Services |-> data])
                               /\ bout' = Append(bout, [line |-> "written"])
                          [] OTHER ->
                               /\ files' = files
                               /\ bout' = Append(bout, [line |-> "unsupported_format"])
                   ELSE /\ files' = files
                        /\ bout' = bout
                              \o <<[line |-> "billing_period"]>>
                              \o ServiceLines(data, metrics)
                              \o TotalLines(data, metrics, totals)
                /\ exception' = exception
                /\ bpc' = "done"
    /\ UNCHANGED <<bargs, response, aggregated_data, not_billing_vars>>

BillingInit ==
    /\ bargs \in {[metrics |-> m, start_date |-> "2024-01-01", end_date |-> "2024-03-01"]
                     @@ o : m \in MetricLists, o \in OutputChoices}
    /\ response = <<>>
    /\ aggregated_data = <<>>
    /\ bout = <<>>
    /\ files = <<>>
    /\ exception = <<>>
    /\ bpc = "start"
    /\ EbsIdle
    /\ CostIdle

BillingNext ==
    \/ GetBillingDataReturns
    \/ GetBillingDataFails
    \/ ClientConstructionRaises
    \/ AggregateBillingData
    \/ PrintBillingData

SpecBilling == BillingInit /\ [][BillingNext]_vars

-----------------------------------------------------------------------------
(* Properties of the billing pipeline                                      *)

\* The sum of f[x] over the x of S.
RECURSIVE SetSum(_, _)
SetSum(S, f) ==
    IF S = {} THEN 0
    ELSE LET x == CHOOSE y \in S : TRUE
         IN  f[x] + SetSum(S \ {x}, f)

\* The pipeline has ended, one way or the other.
BillingEnded == bpc \in {"done", "raised"}

\* One of the three failure messages of get_billing_data was printed.
FailureReported ==
    \E i \in 1..Len(bout) :
        bout[i].line \in {"credentials_not_found", "data_not_available",
                          "error_occurred"}

\* The remote fetch failed inside get_billing_data, which caught the
\* exception and returned None.
FetchFailed == bpc # "start" /\ response = <<>> /\ FailureReported

\* C4: when the fetch fails, the failure is printed, no data is returned,
\* aggregation yields an empty result, and the run ends with no exception
\* leaving the pipeline and no output file written.
C4_FetchFailureEndsQuietly ==
    (FetchFailed /\ BillingEnded) =>
        /\ aggregated_data.items = <<>>
        /\ files = <<>>
        /\ exception = <<>>
        /\ bpc = "done"

\* The sum, over the services of the aggregated data, of each service's
\* amount for metric m.
SumOfServiceTotals(m) ==
    SetSum(1..Len(aggregated_data.items),
           [i \in 1..Len(aggregated_data.items) |->
               aggregated_data.items[i].amounts[m]])

TotalsReported == bpc = "done" /\ bargs.output_file = <<>>

Buckets ==
    IF "ResultsByTime" \in DOMAIN response[1] THEN response[1].ResultsByTime
    ELSE <<>>

\* The places <<bucket, group>> of the response where a service occurs.
PlacesOf(service) ==
    {p \in (1..Len(Buckets)) \X (1..Cardinality(Services)) :
        /\ "Groups" \in DOMAIN Buckets[p[1]]
        /\ p[2] <= Len(Buckets[p[1]].Groups)
        /\ Buckets[p[1]].Groups[p[2]].Keys[1] = service}

GroupAt(p) == Buckets[p[1]].Groups[p[2]]

Earlier(p, q) == p[1] < q[1] \/ (p[1] = q[1] /\ p[2] <= q[2])

FirstPlaceOf(service) ==
    CHOOSE p \in PlacesOf(service) : \A q \in PlacesOf(service) : Earlier(p, q)

ServicesInResponse == {svc \in Services : PlacesOf(svc) # {}}

Aggregated == bpc \in {"aggregated", "done"} /\ response # <<>>

-----------------------------------------------------------------------------
(* ec2_cost_estimate.py                                                    *)

\* The numbers of running EC2 instances and of DB instances of the account.
MaxEc2 == 2
MaxRds == 2

\* Prices are in thousandths of a dollar. The pricing document of line 140:
\* x9.mega has no Linux price for us-east-1, z1.new is not in the document.
PricingDocument ==
    ("t3.micro" :> [prices |-> ("Linux" :> ("us-east-1" :> [Shared |-> 10]
                                          @@ "eu-west-1" :> [Shared |-> 11]))])
    @@ ("m5.large" :> [prices |-> ("Linux" :> ("us-east-1" :> [Shared |-> 96])
                                   @@ "Windows" :> ("us-east-1" :> [Shared |-> 188]))])
    @@ ("x9.mega" :> [prices |-> ("Linux" :> ("eu-west-1" :> [Shared |-> 500]))])

\* load_instance_prices, lines 8-20.
load_instance_prices(yaml_data) ==
    LET priced == {t \in DOMAIN yaml_data :
                      /\ "Linux" \in DOMAIN yaml_data[t].prices
                      /\ "us-east-1" \in DOMAIN yaml_data[t].prices["Linux"]}
    IN  [t \in priced |-> yaml_data[t].prices["Linux"]["us-east-1"].Shared]

\* get_ebs_prices, lines 114-123.
get_ebs_prices ==
    ("gp2" :> 100) @@ ("gp3" :> 80) @@ ("io1" :> 125) @@ ("io2" :> 150)
    @@ ("st1" :> 45) @@ ("sc1" :> 25) @@ ("standard" :> 50)

\* The running instances get_running_instances may return (the provider
\* applies the filters of lines 33-41). Volume sizes are multiples of 30 GiB,
\* for which the division of line 131 is exact.
Ec2Shapes ==
    { [instance_type |-> "t3.micro", volumes |-> <<>>],
      [instance_type |-> "m5.large",
       volumes |-> <<[volume_type |-> "gp3", size |-> 30]>>],
      [instance_type |-> "x9.mega",
       volumes |-> <<[volume_type |-> "io9", size |-> 60]>>],
      [instance_type |-> "z1.new", volumes |-> <<>>] }

DbShapes ==
    { [DBInstanceStatus |-> "available", DBInstanceClass |-> "db.t3.micro",
       TagList |-> <<Tag("env", "prod"), Tag("team", "data")>>],
      [DBInstanceStatus |-> "available", DBInstanceClass |-> "db.m5.large",
       TagList |-> <<Tag("env", "prod")>>],
      [DBInstanceStatus |-> "available", DBInstanceClass |-> "db.t3.micro",
       TagList |-> <<>>],
      [DBInstanceStatus |-> "stopped", DBInstanceClass |-> "db.m5.large",
       TagList |-> <<Tag("env", "prod")>>] }

\* A KEY=VALUE argument is the sequence of its three parts.
KeyValue(k, v) == <<k, "=", v>>

\* --tag: absent (None, here <<>>) or one or more KEY=VALUE arguments.
TagArguments ==
    { <<>>,
      <<KeyValue("env", "prod")>>,
      <<KeyValue("env", "prod"), KeyValue("team", "data")>> }

\* The PriceList get_products returns for a class: one price (MaxResults=1,
\* line 80) or nothing.
Catalogs ==
    { ("db.t3.micro" :> t) @@ ("db.m5.large" :> m) :
        t \in {<<>>, <<17>>}, m \in {<<>>, <<171>>} }

\* tag.split('='), lines 37 and 105.
SplitTag(tag) == SelectSeq(tag, LAMBDA part : part # "=")

\* Lines 104-108 for one tag_info: the inner loop appends the instance at the
\* first requested tag that equals it and breaks.
MatchesRequested(tag_info, tags) ==
    \E k \in 1..Len(tags) :
        /\ tag_info.Key = SplitTag(tags[k])[1]
        /\ tag_info.Value = SplitTag(tags[k])[2]

\* Lines 103-108 for one instance: the break of line 108 leaves the loop over
\* the requested tags only, so the loop over TagList goes on and appends the
\* instance once for each of its tags that is requested.
AppendsFor(instance, tags) ==
    LET hits == SelectSeq(instance.TagList,
                          LAMBDA tag_info : MatchesRequested(tag_info, tags))
    IN  [j \in 1..Len(hits) |-> instance]

\* Lines 101-109.
RECURSIVE FilterByTags(_, _)
FilterByTags(insts, tags) ==
    IF insts = <<>> THEN <<>>
    ELSE AppendsFor(Head(insts), tags) \o FilterByTags(Tail(insts), tags)

\* get_running_rds_instances, lines 94-111.
get_running_rds_instances(dbs, tags) ==
    LET available == SelectSeq(dbs, LAMBDA db : db.DBInstanceStatus = "available")
    IN  IF tags # <<>> THEN FilterByTags(available, tags) ELSE available

\* A variant that forgets the 30 days of the month.
estimate_ec2_monthly_cost_Daily(instance, prices) ==
    IF instance.instance_type \in DOMAIN prices
    THEN prices[instance.instance_type] * 24
    ELSE 0

\* estimate_ec2_monthly_cost, lines 46-53: the value returned ...
estimate_ec2_monthly_cost(instance, prices) ==
    IF instance.instance_type \in DOMAIN prices
    THEN prices[instance.instance_type] * 24 * 30
    ELSE 0

\* ... and the lines written to stderr.
estimate_ec2_diagnostics(instance, prices) ==
    IF instance.instance_type \in DOMAIN prices THEN <<>>
    ELSE <<[error |-> "instance_type_not_found", type |-> instance.instance_type]>>

\* estimate_rds_monthly_cost, lines 56-63.
estimate_rds_monthly_cost(instance, prices) ==
    IF instance.DBInstanceClass \in DOMAIN prices
    THEN prices[instance.DBInstanceClass] * 24 * 30
    ELSE 0

estimate_rds_diagnostics(instance, prices) ==
    IF instance.DBInstanceClass \in DOMAIN prices THEN <<>>
    ELSE <<[error |-> "instance_class_not_found", class |-> instance.DBInstanceClass]>>

\* load_rds_prices, lines 66-91: a dict with the class's price, or an empty
\* dict when the PriceList is empty.
load_rds_prices(db_instance_class) ==
    IF catalog[db_instance_class] = <<>> THEN <<>>
    ELSE db_instance_class :> catalog[db_instance_class][1]

\* estimate_ebs_volume_cost, lines 126-135.
estimate_ebs_volume_cost(volume, ebs_prices) ==
    IF volume.volume_type \in DOMAIN ebs_prices
    THEN (ebs_prices[volume.volume_type] * volume.size) \div 30
    ELSE 0

estimate_ebs_diagnostics(volume, ebs_prices) ==
    IF volume.volume_type \in DOMAIN ebs_prices THEN <<>>
    ELSE <<[error |-> "volume_type_not_found", type |-> volume.volume_type]>>

\* Lines 164-168 over the volumes of one instance.
RECURSIVE EbsCostOf(_)
EbsCostOf(volumes) ==
    IF volumes = <<>> THEN 0
    ELSE estimate_ebs_volume_cost(Head(volumes), get_ebs_prices)
         + EbsCostOf(Tail(volumes))

RECURSIVE EbsDiagnosticsOf(_)
EbsDiagnosticsOf(volumes) ==
    IF volumes = <<>> THEN <<>>
    ELSE estimate_ebs_diagnostics(Head(volumes), get_ebs_prices)
         \o EbsDiagnosticsOf(Tail(volumes))

EbsLinesOf(instance) ==
    [j \in 1..Len(instance.volumes) |->
        [line |-> "ebs_volume", instance |-> instance.id,
         type |-> instance.volumes[j].volume_type,
         size |-> instance.volumes[j].size,
         cost |-> estimate_ebs_volume_cost(instance.volumes[j], get_ebs_prices)]]

\* dict[key] += amount after "if key not in dict: dict[key] = 0".
AddTo(dict, key, amount) ==
    IF key \in DOMAIN dict THEN [dict EXCEPT ![key] = @ + amount]
    ELSE dict @@ (key :> amount)

\* Lines 139-150: the inputs are fetched and the totals initialised.
StartEstimate ==
    /\ cpc = "start"
    /\ instance_prices' = load_instance_prices(PricingDocument)
    /\ rds_running_instances' = get_running_rds_instances(db_instances, cargs.tag)
    /\ ec2_total_monthly_cost' = 0
    /\ ec2_costs_by_instance_type' = <<>>
    /\ rds_total_monthly_cost' = 0
    /\ rds_costs_by_instance_type' = <<>>
    /\ next_instance' = 1
    /\ cpc' = "ec2"
    /\ UNCHANGED <<cargs, ec2_running_instances, db_instances, catalog, rds_prices,
                   price_queries, cout, stderr, cexception, not_cost_vars>>

\* One iteration of the loop of lines 153-168.
EstimateEc2Instance ==
    /\ cpc = "ec2"
    /\ next_instance <= Len(ec2_running_instances)
    /\ LET instance == ec2_running_instances[next_instance]
           instance_cost == estimate_ec2_monthly_cost(instance, instance_prices)
       IN  /\ stderr' = stderr
                  \o estimate_ec2_diagnostics(instance, instance_prices)
                  \o EbsDiagnosticsOf(instance.volumes)
           /\ cout' = Append(cout,
                  [line |-> "ec2_instance", instance |-> instance.id,
                   type |-> instance.instance_type, cost |-> instance_cost])
                  \o EbsLinesOf(instance)
           /\ ec2_total_monthly_cost' =
                  ec2_total_monthly_cost + instance_cost + EbsCostOf(instance.volumes)
           /\ ec2_costs_by_instance_type' =
                  AddTo(ec2_costs_by_instance_type, instance.instance_type,
                        instance_cost)
    /\ next_instance' = next_instance + 1
    /\ UNCHANGED <<cost_inputs, rds_running_instances, rds_prices, price_queries,
                   rds_total_monthly_cost, rds_costs_by_instance_type, cexception,
                   cpc, not_cost_vars>>

\* Lines 170-177: the EC2 report, and the empty memo of the RDS pass.
ReportEc2 ==
    /\ cpc = "ec2"
    /\ next_instance > Len(ec2_running_instances)
    /\ cout' = cout
           \o <<[line |-> "ec2_costs_by_type", costs |-> ec2_costs_by_instance_type],
                [line |-> "ec2_total", cost |-> ec2_total_monthly_cost]>>
    /\ rds_prices' = <<>>
    /\ next_instance' = 1
    /\ cpc' = "rds"
    /\ UNCHANGED <<cost_inputs, rds_running_instances, price_queries,
                   ec2_total_monthly_cost, ec2_costs_by_instance_type,
                   rds_total_monthly_cost, rds_costs_by_instance_type, stderr,
                   cexception, not_cost_vars>>

\* One iteration of the loop of lines 178-192. Line 181 indexes what
\* load_rds_prices returned with the class: a KeyError when it is empty.
EstimateRdsInstance ==
    /\ cpc = "rds"
    /\ next_instance <= Len(rds_running_instances)
    /\ LET instance == rds_running_instances[next_instance]
           class == instance.DBInstanceClass
           query == class \notin DOMAIN rds_prices
           loaded == load_rds_prices(class)
       IN  /\ price_queries' =
                  IF query THEN Append(price_queries, class) ELSE price_queries
           /\ IF query /\ class \notin DOMAIN loaded
              THEN /\ cexception' = <<"KeyError">>
                   /\ cpc' = "raised"
                   /\ UNCHANGED <<rds_prices, rds_total_monthly_cost,
                                  rds_costs_by_instance_type, next_instance, cout,
                                  stderr>>
              ELSE LET prices == IF query
                                 THEN rds_prices @@ (class :> loaded[class])
                                 ELSE rds_prices
                       instance_cost == estimate_rds_monthly_cost(instance, prices)
                   IN  /\ rds_prices' = prices
                       /\ stderr' = stderr \o estimate_rds_diagnostics(instance, prices)
                       /\ cout' = Append(cout,
                              [line |-> "rds_instance",
                               instance |-> instance.DBInstanceIdentifier,
                               class |-> class, cost |-> instance_cost])
                       /\ rds_total_monthly_cost' =
                              rds_total_monthly_cost + instance_cost
                       /\ rds_costs_by_instance_type' =
                              AddTo(rds_costs_by_instance_type, class, instance_cost)
                       /\ next_instance' = next_instance + 1
                       /\ UNCHANGED <<cexception, cpc>>
    /\ UNCHANGED <<cost_inputs, rds_running_instances, ec2_total_monthly_cost,
                   ec2_costs_by_instance_type, not_cost_vars>>

\* Lines 194-201.
ReportRds ==
    /\ cpc = "rds"
    /\ next_instance > Len(rds_running_instances)
    /\ cout' = cout
           \o <<[line |-> "rds_costs_by_type", costs |-> rds_costs_by_instance_type],
                [line |-> "rds_total", cost |-> rds_total_monthly_cost],
                [line |-> "overall_total",
                 cost |-> ec2_total_monthly_cost + rds_total_monthly_cost]>>
    /\ cpc' = "done"
    /\ UNCHANGED <<cost_inputs, rds_running_instances, rds_prices, price_queries,
                   ec2_total_monthly_cost, ec2_costs_by_instance_type,
                   rds_total_monthly_cost, rds_costs_by_instance_type,
                   next_instance, stderr, cexception, not_cost_vars>>

\* Instances get their ids by position.
WithIds(shapes, field, prefix) ==
    [i \in 1..Len(shapes) |-> shapes[i] @@ (field :> <<prefix, i>>)]

CostInit ==
    /\ cargs \in {[tag |-> t] : t \in TagArguments}
    /\ ec2_running_instances \in
           {WithIds(e, "id", "i") : e \in SeqsUpTo(Ec2Shapes, MaxEc2)}
    /\ db_instances \in
           {WithIds(d, "DBInstanceIdentifier", "db") : d \in SeqsUpTo(DbShapes, MaxRds)}
    /\ catalog \in Catalogs
    /\ instance_prices = <<>>
    /\ rds_running_instances = <<>>
    /\ rds_prices = <<>>
    /\ price_queries = <<>>
    /\ ec2_total_monthly_cost = 0
    /\ ec2_costs_by_instance_type = <<>>
    /\ rds_total_monthly_cost = 0
    /\ rds_costs_by_instance_type = <<>>
    /\ next_instance = 0
    /\ cout = <<>>
    /\ stderr = <<>>
    /\ cexception = <<>>
    /\ cpc = "start"
    /\ EbsIdle
    /\ BillingIdle

CostNext ==
    \/ StartEstimate
    \/ EstimateEc2Instance
    \/ ReportEc2
    \/ EstimateRdsInstance
    \/ ReportRds

SpecCost == CostInit /\ [][CostNext]_vars

\* The three scripts, one of which is run.
Init == EbsInit \/ BillingInit \/ CostInit
Next == EbsNext \/ BillingNext \/ CostNext
Spec == Init /\ [][Next]_vars

-----------------------------------------------------------------------------
(* Properties of the cost estimator                                        *)

\* The EC2 instances the loop of lines 153-168 has gone through.
ProcessedEc2 ==
    IF cpc \in {"idle", "start"} THEN 0
    ELSE IF cpc = "ec2" THEN next_instance - 1
    ELSE Len(ec2_running_instances)

Ec2LinesOf(id) ==
    {j \in 1..Len(cout) : cout[j].line = "ec2_instance" /\ cout[j].instance = id}

TypeDiagnostics(t) ==
    {j \in 1..Len(stderr) :
        stderr[j].error = "instance_type_not_found" /\ stderr[j].type = t}

\* C7: an instance whose type is not in the pricing table is estimated at 0
\* with one diagnostic line, and the loop goes on; an instance whose type is
\* in the table is estimated at its hourly price times 720, without a
\* diagnostic line.
C7_Ec2MonthlyEstimate ==
    /\ \A i \in 1..ProcessedEc2 :
         LET inst == ec2_running_instances[i]
             known == inst.instance_type \in DOMAIN instance_prices
         IN  /\ Cardinality(Ec2LinesOf(inst.id)) = 1
             /\ \A j \in Ec2LinesOf(inst.id) :
                  cout[j].cost = IF known
                                 THEN instance_prices[inst.instance_type] * 720
                                 ELSE 0
    /\ \A t \in {ec2_running_instances[i].instance_type :
                    i \in 1..Len(ec2_running_instances)} :
         Cardinality(TypeDiagnostics(t)) =
             Cardinality({i \in 1..ProcessedEc2 :
                             /\ ec2_running_instances[i].instance_type = t
                             /\ t \notin DOMAIN instance_prices})
    /\ cpc = "ec2" => ENABLED (EstimateEc2Instance \/ ReportEc2)

\* An instance of a type without a price was estimated at 0 with its one
\* diagnostic line, and the instance after it, of a priced type, at
\* 10 * 720.
C7_Witness ==
    /\ ProcessedEc2 = 2
    /\ ec2_running_instances[1].instance_type = "x9.mega"
    /\ ec2_running_instances[2].instance_type = "t3.micro"
    /\ Cardinality(TypeDiagnostics("x9.mega")) = 1
    /\ \E j \in Ec2LinesOf(ec2_running_instances[1].id) : cout[j].cost = 0
    /\ \E j \in Ec2LinesOf(ec2_running_instances[2].id) : cout[j].cost = 7200

CostEnded == cpc \in {"done", "raised"}

\* C9: over the database pass the number of pricing-catalog queries equals
\* the number of distinct classes of the running database instances, and no
\* class is queried twice.
C9_OneQueryPerDistinctClass ==
    /\ \A i, j \in 1..Len(price_queries) :
         price_queries[i] = price_queries[j] => i = j
    /\ CostEnded =>
         Len(price_queries) =
             Cardinality({rds_running_instances[i].DBInstanceClass :
                             i \in 1..Len(rds_running_instances)})

OccurrencesOf(id) ==
    {i \in 1..Len(rds_running_instances) :
        rds_running_instances[i].DBInstanceIdentifier = id}

RdsLinesOf(id) ==
    {j \in 1..Len(cout) : cout[j].line = "rds_instance" /\ cout[j].instance = id}

\* Some tag of the instance equals some requested KEY=VALUE pair.
HasRequestedTag(db) ==
    \E t \in 1..Len(db.TagList), k \in 1..Len(cargs.tag) :
        cargs.tag[k] = KeyValue(db.TagList[t].Key, db.TagList[t].Value)

\* C10: with tag filters, get_running_rds_instances returns each available
\* database instance at most once, and exactly when one of its tags is
\* requested; each instance's cost is counted at most once.
C10_EachDbInstanceOnce ==
    (cpc \notin {"idle", "start"} /\ cargs.tag # <<>>) =>
        \A d \in 1..Len(db_instances) :
            LET db == db_instances[d]
                id == db.DBInstanceIdentifier
            IN  /\ Cardinality(OccurrencesOf(id)) =
                       IF db.DBInstanceStatus = "available" /\ HasRequestedTag(db)
                       THEN 1 ELSE 0
                /\ Cardinality(RdsLinesOf(id)) <= 1

====
